---- MODULE Spec2Model ----
(***************************************************************************)
(* content_inspector: classification of a byte buffer as binary or as one  *)
(* of several text encodings (src/src/lib.rs), and the file reader of the  *)
(* inspect example (src/examples/inspect.rs).                              *)
(*                                                                         *)
(* Bytes are the integers 0..255, a buffer is a sequence of bytes          *)
(* (1-based here, 0-based in the source).                                  *)
(***************************************************************************)
EXTENDS Integers, Sequences, FiniteSets

\* inspect's argument and result, the results of the two predicates, and the
\* position of the caller
VARIABLES buffer, content_type, binary, text, pc

\* the inspect example: the arguments left, the file at hand and its bytes,
\* main's 1024-byte array, the count its read returned, the lines printed,
\* the exit status, and main's position
VARIABLES args, filename, file, main_buffer, length, stdout, status, epc

lib_vars == <<buffer, content_type, binary, text, pc>>

main_vars == <<args, filename, file, main_buffer, length, stdout, status, epc>>

vars == <<buffer, content_type, binary, text, pc,
          args, filename, file, main_buffer, length, stdout, status, epc>>

-----------------------------------------------------------------------------
(* Constants and tables of src/src/lib.rs *)

MAX_SCAN_SIZE == 1024

ContentType ==
  {"BINARY", "UTF_8", "UTF_8_BOM", "UTF_16LE", "UTF_16BE", "UTF_32LE", "UTF_32BE"}

\* Option<T>: None is the empty set, Some(x) the singleton of x
None == {}
Some(x) == {x}

\* the variable content_type before inspect has returned, and after it panicked
NotYet == "not_yet"
Panic == "panic"

\* the table with the UTF-16 marks ahead of the UTF-32 marks they are prefixes of
BYTE_ORDER_MARKS_utf16_first ==
  << [bom |-> <<239, 187, 191>>,    content_type |-> "UTF_8_BOM"],
     [bom |-> <<254, 255>>,         content_type |-> "UTF_16BE"],
     [bom |-> <<255, 254>>,         content_type |-> "UTF_16LE"],
     [bom |-> <<0, 0, 254, 255>>,   content_type |-> "UTF_32BE"],
     [bom |-> <<255, 254, 0, 0>>,   content_type |-> "UTF_32LE"] >>

BYTE_ORDER_MARKS ==
  << [bom |-> <<239, 187, 191>>,    content_type |-> "UTF_8_BOM"],
     [bom |-> <<0, 0, 254, 255>>,   content_type |-> "UTF_32BE"],
     [bom |-> <<255, 254, 0, 0>>,   content_type |-> "UTF_32LE"],
     [bom |-> <<254, 255>>,         content_type |-> "UTF_16BE"],
     [bom |-> <<255, 254>>,         content_type |-> "UTF_16LE"] >>

\* b"%PDF", b"\x89PNG"
MAGIC_NUMBERS == << <<37, 80, 68, 70>>, <<137, 80, 78, 71>> >>

-----------------------------------------------------------------------------
(* Library functions the classifier calls *)

min(a, b) == IF a <= b THEN a ELSE b

\* a prefix test that compares the bytes both have and forgets the lengths
starts_with_common_len(slice, needle) ==
  \A i \in 1..min(Len(slice), Len(needle)) : slice[i] = needle[i]

\* <[u8]>::starts_with: needle is no longer than the slice and equals its head
starts_with(slice, needle) ==
  /\ Len(needle) <= Len(slice)
  /\ \A i \in 1..Len(needle) : slice[i] = needle[i]

\* memchr::memchr: the (0-based) index of the first occurrence, or None
memchr(needle, haystack) ==
  IF \E i \in 1..Len(haystack) : haystack[i] = needle
  THEN Some((CHOOSE i \in 1..Len(haystack) :
               /\ haystack[i] = needle
               /\ \A j \in 1..(i - 1) : haystack[j] # needle) - 1)
  ELSE None

\* &buffer[..n] is in range (it panics otherwise)
slice_in_range(slice, n) == n <= Len(slice)

\* &buffer[..n]
slice_to(slice, n) == SubSeq(slice, 1, n)

-----------------------------------------------------------------------------
(* ContentType::is_binary, ContentType::is_text *)

is_binary(self) == self = "BINARY"

\* is_text as "is plain UTF-8"
is_text_utf8_only(self) == self = "UTF_8"

is_text(self) == ~is_binary(self)

-----------------------------------------------------------------------------
(* inspect *)

\* for &(bom, content_type) in BYTE_ORDER_MARKS { if buffer.starts_with(bom) { return content_type; } }
RECURSIVE bom_loop(_, _)
bom_loop(buf, i) ==
  IF i > Len(BYTE_ORDER_MARKS) THEN None
  ELSE IF starts_with(buf, BYTE_ORDER_MARKS[i].bom) THEN Some(BYTE_ORDER_MARKS[i].content_type)
  ELSE bom_loop(buf, i + 1)

\* the scan window without the clamp to the buffer's length
scan_size_unclamped(buf) == MAX_SCAN_SIZE

\* the scan over the whole buffer
scan_size_whole(buf) == Len(buf)

scan_size(buf) == min(Len(buf), MAX_SCAN_SIZE)

\* is_none() for is_some()
has_zero_bytes_is_none(buf) == memchr(0, slice_to(buf, scan_size(buf))) = None

has_zero_bytes(buf) == memchr(0, slice_to(buf, scan_size(buf))) # None

\* all() for any()
has_magic_number_all(buf) ==
  \A k \in 1..Len(MAGIC_NUMBERS) : starts_with(buf, MAGIC_NUMBERS[k])

\* the magic number tested for the buffer as its prefix
has_magic_number_swapped(buf) ==
  \E k \in 1..Len(MAGIC_NUMBERS) : starts_with(MAGIC_NUMBERS[k], buf)

has_magic_number(buf) ==
  \E k \in 1..Len(MAGIC_NUMBERS) : starts_with(buf, MAGIC_NUMBERS[k])

\* the zero-byte scan ahead of the byte order marks
inspect_zero_scan_first(buf) ==
  IF ~slice_in_range(buf, scan_size(buf)) THEN Panic
  ELSE IF has_zero_bytes(buf) THEN "BINARY"
  ELSE IF bom_loop(buf, 1) # None THEN CHOOSE t \in bom_loop(buf, 1) : TRUE
  ELSE IF has_magic_number(buf) THEN "BINARY"
  ELSE "UTF_8"

inspect(buf) ==
  IF bom_loop(buf, 1) # None THEN CHOOSE t \in bom_loop(buf, 1) : TRUE
  ELSE IF ~slice_in_range(buf, scan_size(buf)) THEN Panic
  ELSE IF has_zero_bytes(buf) THEN "BINARY"
  ELSE IF has_magic_number(buf) THEN "BINARY"
  ELSE "UTF_8"

-----------------------------------------------------------------------------
(* Input buffers *)

\* longest run of free bytes appended to a table prefix
MaxBody == 2
\* how far buffer lengths range around MAX_SCAN_SIZE
Slack == 2

\* the bytes of the tables, and 'A' for any other byte
Bytes == {0, 65}
         \cup UNION {{BYTE_ORDER_MARKS[i].bom[j] : j \in 1..Len(BYTE_ORDER_MARKS[i].bom)}
                        : i \in 1..Len(BYTE_ORDER_MARKS)}
         \cup UNION {{MAGIC_NUMBERS[k][j] : j \in 1..Len(MAGIC_NUMBERS[k])}
                        : k \in 1..Len(MAGIC_NUMBERS)}

Prefixes(s) == {SubSeq(s, 1, n) : n \in 0..Len(s)}

\* every prefix (empty, proper, whole) of a table entry
Heads ==
  UNION {Prefixes(BYTE_ORDER_MARKS[i].bom) : i \in 1..Len(BYTE_ORDER_MARKS)}
  \cup UNION {Prefixes(MAGIC_NUMBERS[k]) : k \in 1..Len(MAGIC_NUMBERS)}

Bodies == UNION {[1..n -> Bytes] : n \in 0..MaxBody}

Fill(n, b) == [i \in 1..n |-> b]

Max(S) == CHOOSE x \in S : \A y \in S : y <= x

MaxHeadLen == Max({Len(h) : h \in Heads})

ShortBuffers == {h \o b : h \in Heads, b \in Bodies}

\* buffers whose length is around MAX_SCAN_SIZE: a head, a run of one byte, a last byte
LongBuffers ==
  {h \o Fill(n, f) \o t :
     h \in Heads,
     n \in (MAX_SCAN_SIZE - MaxHeadLen - Slack)..(MAX_SCAN_SIZE + Slack),
     f \in {0, 65},
     t \in {<<>>, <<0>>, <<65>>}}

Buffers == ShortBuffers \cup LongBuffers

-----------------------------------------------------------------------------
(* A caller: inspect a buffer, then ask the two predicates of the result *)

Init ==
  /\ buffer \in Buffers
  /\ content_type = NotYet
  /\ binary = None
  /\ text = None
  /\ pc = "start"
  /\ args = <<>>
  /\ filename = ""
  /\ file = <<>>
  /\ main_buffer = <<>>
  /\ length = 0
  /\ stdout = <<>>
  /\ status = None
  /\ epc = "idle"

Inspect ==
  /\ pc = "start"
  /\ content_type' = inspect(buffer)
  /\ pc' = IF inspect(buffer) = Panic THEN "panicked" ELSE "inspected"
  /\ UNCHANGED <<buffer, binary, text>>
  /\ UNCHANGED main_vars

IsBinary ==
  /\ pc = "inspected"
  /\ binary = None
  /\ binary' = Some(is_binary(content_type))
  /\ pc' = IF text = None THEN "inspected" ELSE "done"
  /\ UNCHANGED <<buffer, content_type, text>>
  /\ UNCHANGED main_vars

IsText ==
  /\ pc = "inspected"
  /\ text = None
  /\ text' = Some(is_text(content_type))
  /\ pc' = IF binary = None THEN "inspected" ELSE "done"
  /\ UNCHANGED <<buffer, content_type, binary>>
  /\ UNCHANGED main_vars

Next == Inspect \/ IsBinary \/ IsText

Spec == Init /\ [][Next]_vars

-----------------------------------------------------------------------------
(* The inspect example, src/examples/inspect.rs *)

MAX_PEEK_SIZE == 1024

\* most file names on the command line
MaxArgs == 2
\* longest short count a read returns when it returns less than is available
MaxShortRead == 3

\* impl fmt::Display for ContentType
fmt(self) ==
  CASE self = "BINARY" -> "binary"
    [] self = "UTF_8" -> "UTF-8"
    [] self = "UTF_8_BOM" -> "UTF-8-BOM"
    [] self = "UTF_16LE" -> "UTF-16LE"
    [] self = "UTF_16BE" -> "UTF-16BE"
    [] self = "UTF_32LE" -> "UTF-32LE"
    [] self = "UTF_32BE" -> "UTF-32BE"

\* the paths a command line may name: what is_file, open and read see
FileSystem ==
  [ empty   |-> [is_file |-> TRUE,  opens |-> TRUE,  reads |-> TRUE,  contents |-> <<>>],
    hello   |-> [is_file |-> TRUE,  opens |-> TRUE,  reads |-> TRUE,  contents |-> <<72, 101, 108, 108, 111>>],
    nul     |-> [is_file |-> TRUE,  opens |-> TRUE,  reads |-> TRUE,  contents |-> <<65, 0, 65>>],
    pdf     |-> [is_file |-> TRUE,  opens |-> TRUE,  reads |-> TRUE,  contents |-> <<37, 80, 68, 70, 45>>],
    utf16   |-> [is_file |-> TRUE,  opens |-> TRUE,  reads |-> TRUE,  contents |-> <<255, 254, 65, 0>>],
    almost  |-> [is_file |-> TRUE,  opens |-> TRUE,  reads |-> TRUE,  contents |-> Fill(MAX_PEEK_SIZE - 1, 65)],
    full    |-> [is_file |-> TRUE,  opens |-> TRUE,  reads |-> TRUE,  contents |-> Fill(MAX_PEEK_SIZE, 65)],
    big     |-> [is_file |-> TRUE,  opens |-> TRUE,  reads |-> TRUE,  contents |-> Fill(MAX_PEEK_SIZE, 65) \o <<0, 65>>],
    dir     |-> [is_file |-> FALSE, opens |-> TRUE,  reads |-> FALSE, contents |-> <<>>],
    locked  |-> [is_file |-> TRUE,  opens |-> FALSE, reads |-> FALSE, contents |-> <<65>>],
    faulty  |-> [is_file |-> TRUE,  opens |-> TRUE,  reads |-> FALSE, contents |-> <<65>>] ]

Paths == DOMAIN FileSystem

\* Read::read on a file at offset 0: the counts it may return for a buffer of
\* buf_len bytes (0 only at end of file; possibly less than is available)
ReadCounts(contents, buf_len) ==
  IF min(Len(contents), buf_len) = 0 THEN {0}
  ELSE {n \in 1..min(Len(contents), buf_len) :
          n <= MaxShortRead \/ n = min(Len(contents), buf_len)}

\* the array after a read of n bytes: the first n bytes are the file's, the rest is untouched
read_into(buf, contents, n) ==
  [i \in 1..Len(buf) |-> IF i <= n THEN contents[i] ELSE buf[i]]

\* &buffer[..], the whole array
slice_whole(buf, n) == buf

\* &buffer[0..length]
slice_0_to(buf, n) == SubSeq(buf, 1, n)

\* the command line after the program name
InitMain ==
  /\ args \in UNION {[1..n -> Paths] : n \in 0..MaxArgs}
  /\ filename = ""
  /\ file = <<>>
  /\ main_buffer = <<>>
  /\ length = 0
  /\ stdout = <<>>
  /\ status = None
  /\ epc = "main"
  /\ buffer = <<>>
  /\ content_type = NotYet
  /\ binary = None
  /\ text = None
  /\ pc = "idle"

\* if args.len() < 2 { eprintln!(USAGE); exit(1); }
Usage ==
  /\ epc = "main"
  /\ Len(args) + 1 < 2
  /\ status' = Some(1)
  /\ epc' = "exit"
  /\ UNCHANGED <<args, filename, file, main_buffer, length, stdout>>
  /\ UNCHANGED lib_vars

\* args.next();
SkipProgramName ==
  /\ epc = "main"
  /\ ~(Len(args) + 1 < 2)
  /\ epc' = "loop"
  /\ UNCHANGED <<args, filename, file, main_buffer, length, stdout, status>>
  /\ UNCHANGED lib_vars

\* for filename in args { if !Path::new(&filename).is_file() { continue; }
NotAFile ==
  /\ epc = "loop"
  /\ args # <<>>
  /\ ~FileSystem[Head(args)].is_file
  /\ filename' = Head(args)
  /\ args' = Tail(args)
  /\ UNCHANGED <<file, main_buffer, length, stdout, status, epc>>
  /\ UNCHANGED lib_vars

NextFile ==
  /\ epc = "loop"
  /\ args # <<>>
  /\ FileSystem[Head(args)].is_file
  /\ filename' = Head(args)
  /\ args' = Tail(args)
  /\ epc' = "open"
  /\ UNCHANGED <<file, main_buffer, length, stdout, status>>
  /\ UNCHANGED lib_vars

\* let mut file = File::open(&filename)?; let mut buffer = [0; MAX_PEEK_SIZE];
Open ==
  /\ epc = "open"
  /\ FileSystem[filename].opens
  /\ file' = FileSystem[filename].contents
  /\ main_buffer' = Fill(MAX_PEEK_SIZE, 0)
  /\ epc' = "read"
  /\ UNCHANGED <<args, filename, length, stdout, status>>
  /\ UNCHANGED lib_vars

OpenFails ==
  /\ epc = "open"
  /\ ~FileSystem[filename].opens
  /\ status' = Some(1)
  /\ epc' = "exit"
  /\ UNCHANGED <<args, filename, file, main_buffer, length, stdout>>
  /\ UNCHANGED lib_vars

\* let length = file.read(&mut buffer[..])?;
Read ==
  /\ epc = "read"
  /\ FileSystem[filename].reads
  /\ \E n \in ReadCounts(file, Len(main_buffer)) :
       /\ length' = n
       /\ main_buffer' = read_into(main_buffer, file, n)
  /\ epc' = "inspect"
  /\ UNCHANGED <<args, filename, file, stdout, status>>
  /\ UNCHANGED lib_vars

ReadFails ==
  /\ epc = "read"
  /\ ~FileSystem[filename].reads
  /\ status' = Some(1)
  /\ epc' = "exit"
  /\ UNCHANGED <<args, filename, file, main_buffer, length, stdout>>
  /\ UNCHANGED lib_vars

\* let content_type = content_inspector::inspect(&buffer[0..length]);
CallInspect ==
  /\ epc = "inspect"
  /\ buffer' = slice_0_to(main_buffer, length)
  /\ content_type' = inspect(slice_0_to(main_buffer, length))
  /\ epc' = "print"
  /\ UNCHANGED <<args, filename, file, main_buffer, length, stdout, status>>
  /\ UNCHANGED <<binary, text, pc>>

\* println!("{}: {}", filename, content_type);
Println ==
  /\ epc = "print"
  /\ stdout' = Append(stdout, <<filename, fmt(content_type)>>)
  /\ epc' = "loop"
  /\ UNCHANGED <<args, filename, file, main_buffer, length, status>>
  /\ UNCHANGED lib_vars

\* Ok(())
Done ==
  /\ epc = "loop"
  /\ args = <<>>
  /\ status' = Some(0)
  /\ epc' = "exit"
  /\ UNCHANGED <<args, filename, file, main_buffer, length, stdout>>
  /\ UNCHANGED lib_vars

NextMain ==
  \/ Usage
  \/ SkipProgramName
  \/ NotAFile
  \/ NextFile
  \/ Open
  \/ OpenFails
  \/ Read
  \/ ReadFails
  \/ CallInspect
  \/ Println
  \/ Done

SpecMain == InitMain /\ [][NextMain]_vars

-----------------------------------------------------------------------------
(* Vocabulary of the properties, stated on the bytes and independent of the *)
(* operators the classifier is built from                                  *)

Returned == pc \in {"inspected", "done"}

IsPrefixOf(p, s) == Len(p) <= Len(s) /\ SubSeq(s, 1, Len(p)) = p

IsProperPrefixOf(p, s) == Len(p) < Len(s) /\ SubSeq(s, 1, Len(p)) = p

BomEntries == {BYTE_ORDER_MARKS[i] : i \in 1..Len(BYTE_ORDER_MARKS)}

MatchingBoms(b) == {e \in BomEntries : IsPrefixOf(e.bom, b)}

HasBomPrefix(b) == MatchingBoms(b) # {}

\* the byte at 0-based index i - 1 < min(len, 1024) is zero
ZeroInWindow(b) == \E i \in 1..Len(b) : i <= 1024 /\ b[i] = 0

ZeroAnywhere(b) == \E i \in 1..Len(b) : b[i] = 0

HasMagicPrefix(b) == IsPrefixOf(<<37, 80, 68, 70>>, b) \/ IsPrefixOf(<<137, 80, 78, 71>>, b)

-----------------------------------------------------------------------------
(* Properties *)

\* C1: a buffer that starts with a byte order mark of the table is given the
\* content type of a mark it starts with (the first such entry in table
\* order), whether or not it has zero bytes in its first 1024 bytes; it is
\* never BINARY.
C1_BomBeforeZeroScan ==
  (pc # "start" /\ HasBomPrefix(buffer)) =>
    /\ content_type \in {e.content_type : e \in MatchingBoms(buffer)}
    /\ \E i \in 1..Len(BYTE_ORDER_MARKS) :
         /\ IsPrefixOf(BYTE_ORDER_MARKS[i].bom, buffer)
         /\ \A j \in 1..(i - 1) : ~IsPrefixOf(BYTE_ORDER_MARKS[j].bom, buffer)
         /\ content_type = BYTE_ORDER_MARKS[i].content_type
    /\ content_type # "BINARY"

C1_Witness ==
  /\ Returned
  /\ IsPrefixOf(<<255, 254>>, buffer)
  /\ Len(buffer) = 4 /\ buffer[3] # 0 /\ buffer[4] = 0
  /\ content_type = "UTF_16LE"

\* C2: a buffer that starts with no byte order mark and has a zero byte at an
\* index below min(len, 1024) is BINARY.
C2_ZeroByteIsBinary ==
  (pc # "start" /\ ~HasBomPrefix(buffer) /\ ZeroInWindow(buffer)) =>
    content_type = "BINARY"

C2_Witness ==
  /\ Returned
  /\ Len(buffer) = 1024
  /\ buffer[1024] = 0
  /\ \A i \in 1..1023 : buffer[i] # 0
  /\ ~HasBomPrefix(buffer)
  /\ content_type = "BINARY"

\* C3: no entry of the byte order mark table is a proper prefix of a later
\* entry, so a buffer that starts with several marks is given the type of the
\* longest one: FF FE 00 00 is UTF_32LE and 00 00 FE FF is UTF_32BE.
C3_LongestBomWins ==
  /\ \A i, j \in 1..Len(BYTE_ORDER_MARKS) :
       i < j => ~IsProperPrefixOf(BYTE_ORDER_MARKS[i].bom, BYTE_ORDER_MARKS[j].bom)
  /\ pc # "start" =>
       /\ \A e \in MatchingBoms(buffer) :
            (\A f \in MatchingBoms(buffer) : Len(f.bom) <= Len(e.bom)) =>
               content_type = e.content_type
       /\ IsPrefixOf(<<255, 254, 0, 0>>, buffer) => content_type = "UTF_32LE"
       /\ IsPrefixOf(<<0, 0, 254, 255>>, buffer) => content_type = "UTF_32BE"

C3_Witness ==
  /\ Returned
  /\ IsPrefixOf(<<255, 254, 0, 0>>, buffer)
  /\ Cardinality(MatchingBoms(buffer)) = 2
  /\ content_type = "UTF_32LE"

\* C4: a buffer that starts with "%PDF" or 89 50 4E 47 and has no zero byte in
\* its first min(len, 1024) bytes is BINARY, whatever its length.
C4_MagicIsBinary ==
  (pc # "start" /\ HasMagicPrefix(buffer) /\ ~ZeroInWindow(buffer)) =>
    content_type = "BINARY"

C4_Witness ==
  /\ Returned
  /\ IsPrefixOf(<<137, 80, 78, 71>>, buffer)
  /\ ~ZeroAnywhere(buffer)
  /\ Len(buffer) > 1024
  /\ content_type = "BINARY"

\* C5: a buffer with no byte order mark, no zero byte and no magic number is
\* UTF_8, and so is the empty buffer.
C5_DefaultIsUtf8 ==
  pc # "start" =>
    /\ (~HasBomPrefix(buffer) /\ ~ZeroAnywhere(buffer) /\ ~HasMagicPrefix(buffer)) =>
          content_type = "UTF_8"
    /\ buffer = <<>> => content_type = "UTF_8"

C5_Witness ==
  /\ Returned
  /\ buffer = <<>>
  /\ content_type = "UTF_8"

\* C6: inspect returns one of the seven content types for a buffer of any
\* length and never fails: the scan window min(len, 1024) is within the buffer.
C6_Total ==
  /\ pc = "start" => ENABLED Inspect
  /\ pc # "panicked"
  /\ min(Len(buffer), MAX_SCAN_SIZE) <= Len(buffer)
  /\ pc # "start" => content_type \in ContentType

C6_Witness ==
  /\ Returned
  /\ Len(buffer) = MAX_SCAN_SIZE
  /\ content_type \in ContentType

\* C7: is_binary is the negation of is_text, and is true of BINARY only.
C7_BinaryIsNotText ==
  /\ \A x \in ContentType :
       /\ is_binary(x) = ~is_text(x)
       /\ is_binary(x) <=> x = "BINARY"
  /\ pc = "done" =>
       /\ binary = Some(content_type = "BINARY")
       /\ text = Some(content_type # "BINARY")

C7_Witness ==
  /\ pc = "done"
  /\ content_type = "UTF_32LE"
  /\ binary = Some(FALSE)
  /\ text = Some(TRUE)

\* C8: the result depends on the first min(len, 1024) bytes only: it is the
\* result for the buffer cut to that length, and a zero byte at index 1024 or
\* later does not make a buffer BINARY.
C8_WindowOnly ==
  pc # "start" =>
    /\ content_type = inspect(SubSeq(buffer, 1, min(Len(buffer), 1024)))
    /\ (~ZeroInWindow(buffer) /\ ~HasMagicPrefix(buffer)) => content_type # "BINARY"

C8_Witness ==
  /\ Returned
  /\ Len(buffer) > 1024
  /\ buffer[1025] = 0
  /\ ~ZeroInWindow(buffer)
  /\ content_type = "UTF_8"

\* C9: a buffer that is a proper prefix of a byte order mark is not given that
\* mark's type; when it starts with no whole mark it is BINARY if it holds a
\* zero byte and UTF_8 otherwise: 00 00 and 00 00 FE are BINARY, EF BB, FF and
\* FE are UTF_8.
C9_ShortBufferNoBom ==
  pc # "start" =>
    /\ \A e \in BomEntries :
         IsProperPrefixOf(buffer, e.bom) =>
           /\ content_type # e.content_type
           /\ ~HasBomPrefix(buffer) =>
                content_type = IF ZeroAnywhere(buffer) THEN "BINARY" ELSE "UTF_8"
    /\ buffer \in {<<0, 0>>, <<0, 0, 254>>} => content_type = "BINARY"
    /\ buffer \in {<<239, 187>>, <<255>>, <<254>>} => content_type = "UTF_8"

C9_Witness ==
  /\ Returned
  /\ buffer = <<0, 0, 254>>
  /\ content_type = "BINARY"

\* C10: the example hands inspect the bytes its one read returned, the first
\* `length` bytes of the file with length <= 1024, and none of the zeros the
\* array was initialised with: a file without zero bytes and without a magic
\* number is never printed as binary, and an empty file is printed as UTF-8.
C10_ReaderPassesReadBytesOnly ==
  /\ epc = "print" =>
       /\ length <= 1024
       /\ Len(buffer) = length
       /\ buffer = SubSeq(FileSystem[filename].contents, 1, length)
       /\ (~ZeroAnywhere(FileSystem[filename].contents)
             /\ ~HasMagicPrefix(FileSystem[filename].contents)) => content_type # "BINARY"
       /\ FileSystem[filename].contents = <<>> => content_type = "UTF_8"
  /\ \A k \in 1..Len(stdout) :
       /\ (~ZeroAnywhere(FileSystem[stdout[k][1]].contents)
             /\ ~HasMagicPrefix(FileSystem[stdout[k][1]].contents)) => stdout[k][2] # "binary"
       /\ FileSystem[stdout[k][1]].contents = <<>> => stdout[k][2] = "UTF-8"

C10_Witness ==
  /\ epc = "loop"
  /\ filename = "hello"
  /\ length = 5
  /\ Len(main_buffer) = 1024 /\ main_buffer[6] = 0
  /\ buffer = <<72, 101, 108, 108, 111>>
  /\ stdout # <<>>
  /\ stdout[Len(stdout)] = <<"hello", "UTF-8">>

====
